---- MODULE Spec2Model ----
(***************************************************************************)
(* Model of the mediathekviewweb client: the search-string parser, the     *)
(* request builder with its serialized payload, the send() pipeline and    *)
(* the tolerant decoders of the response items.                            *)
(*                                                                         *)
(* Strings are sequences of one-character strings.  Option<T> is the       *)
(* record [some |-> FALSE] or [some |-> TRUE, val |-> T].  Result<T, E> is *)
(* the record [ok |-> TRUE, val |-> T] or [ok |-> FALSE, err |-> E].       *)
(***************************************************************************)
EXTENDS Integers, Sequences, FiniteSets, TLC

VARIABLES
    pc,        \* position of the caller in the chain it runs
    input,     \* the search string so far (Mediathek::query_string argument)
    keys,      \* how many characters the caller has typed after the pasted start
    everywhere,\* the search_everywhere flag passed to query_string
    query,     \* MediathekQueryBuilder.query: the MediathekQuery being built
    calls,     \* history: per setter, the value of its most recent call
    payload,   \* the JSON body send() hands to the transport
    response,  \* what the transport delivers for the POST
    result,    \* the value send() returns
    wire,      \* a JSON item object handed to Item's decoder
    item       \* the decoded Item (or the decode error)

vars == <<pc, input, keys, everywhere, query, calls, payload, response, result, wire, item>>

-----------------------------------------------------------------------------
(* Bounds of the model *)

\* most characters typed after the pasted start of a search string
MaxLen == 3
\* u64 is modelled with ScaledBits bits and i64 with the same width, signed
ScaledBits == 4
\* most members of a JSON item the server writes differently
MaxEdits == 1
\* most clauses a builder chain adds
MaxQueries == 2
\* largest number a setter is called with
MaxArg == 1

U64_MAX == 2 ^ ScaledBits - 1
I64_MAX == 2 ^ (ScaledBits - 1) - 1
I64_MIN == 0 - 2 ^ (ScaledBits - 1)

-----------------------------------------------------------------------------
(* Option and Result *)

None == [some |-> FALSE]
Some(v) == [some |-> TRUE, val |-> v]
Ok(v) == [ok |-> TRUE, val |-> v]
Err(e) == [ok |-> FALSE, err |-> e]

\* std::time::Duration
Duration(secs, nanos) == [secs |-> secs, nanos |-> nanos]
\* Duration::as_secs: the whole seconds
as_secs(d) == d.secs

-----------------------------------------------------------------------------
(* Strings *)

Digits == {"0", "1", "2", "3", "4", "5", "6", "7", "8", "9"}

DigitVal(c) ==
    CASE c = "0" -> 0 [] c = "1" -> 1 [] c = "2" -> 2 [] c = "3" -> 3
      [] c = "4" -> 4 [] c = "5" -> 5 [] c = "6" -> 6 [] c = "7" -> 7
      [] c = "8" -> 8 [] c = "9" -> 9

\* char::is_whitespace on the characters of the model
is_whitespace(c) == c \in {" ", "\t"}

\* str::split_whitespace: the maximal runs of non-whitespace characters, in order
RECURSIVE split_ws(_, _, _)
split_ws(str, cur, acc) ==
    IF str = <<>>
    THEN IF cur = <<>> THEN acc ELSE Append(acc, cur)
    ELSE IF is_whitespace(Head(str))
         THEN split_ws(Tail(str), <<>>, IF cur = <<>> THEN acc ELSE Append(acc, cur))
         ELSE split_ws(Tail(str), Append(cur, Head(str)), acc)

split_whitespace(str) == split_ws(str, <<>>, <<>>)

\* str::strip_prefix(char): the rest after the first character when it is c
strip_prefix(str, c) ==
    IF str # <<>> /\ Head(str) = c THEN Some(Tail(str)) ELSE None

\* replace that leaves the string as it is
replace_Unchanged(str, from, to) == str

\* str::replace(from, to) for single characters
replace(str, from, to) ==
    [i \in 1..Len(str) |-> IF str[i] = from THEN to ELSE str[i]]

\* The value of a digit string, checked against max as the digits are read
\* (checked_mul / checked_add of core::num's from_str_radix).
RECURSIVE parse_digits(_, _, _)
parse_digits(str, acc, max) ==
    IF str = <<>> THEN Some(acc)
    ELSE IF Head(str) \notin Digits THEN None
    ELSE LET n == acc * 10 + DigitVal(Head(str))
         IN  IF n > max THEN None ELSE parse_digits(Tail(str), n, max)

\* str::parse::<u64>(): an optional '+', then at least one digit, no overflow
parse_u64(str) ==
    LET body == IF str # <<>> /\ Head(str) = "+" THEN Tail(str) ELSE str
    IN  IF body = <<>> THEN None ELSE parse_digits(body, 0, U64_MAX)

\* str::parse::<i64>(): an optional '+' or '-', then at least one digit, in range
parse_i64(str) ==
    LET neg  == str # <<>> /\ Head(str) = "-"
        body == IF str # <<>> /\ Head(str) \in {"+", "-"} THEN Tail(str) ELSE str
        mag  == IF body = <<>> THEN None
                ELSE parse_digits(body, 0, IF neg THEN 0 - I64_MIN ELSE I64_MAX)
    IN  IF ~mag.some THEN None
        ELSE IF neg THEN Some(0 - mag.val) ELSE mag

\* an integer written out in decimal, as the server writes a number it
\* sends as a string
Decimal == <<"0", "1", "2", "3", "4", "5", "6", "7", "8", "9">>

RECURSIVE to_digits(_)
to_digits(n) ==
    IF n < 10 THEN <<Decimal[n + 1]>>
    ELSE Append(to_digits(n \div 10), Decimal[(n % 10) + 1])

to_string(n) == IF n < 0 THEN <<"-">> \o to_digits(0 - n) ELSE to_digits(n)

-----------------------------------------------------------------------------
(* models.rs: the vocabularies and the query model *)

QueryField == {"Topic", "Title", "Description", "Channel"}
SortField == {"Channel", "Timestamp", "Duration"}
SortOrder == {"Ascending", "Descending"}

\* models::Query
Query(fields, text) == [fields |-> fields, query |-> text]

\* MediathekQuery::default()
DefaultQuery ==
    [queries |-> <<>>, duration_min |-> None, duration_max |-> None,
     future |-> None, sort_by |-> None, sort_order |-> None,
     size |-> None, offset |-> None]

-----------------------------------------------------------------------------
(* lib.rs: MediathekQuery::from_search_string *)

\* a field list that ignores the flag
PlainFields_IgnoresFlag(search_everywhere) == <<"Topic", "Title">>

\* the field list of the final else branch
PlainFields(search_everywhere) ==
    IF search_everywhere
    THEN <<"Channel", "Topic", "Title", "Description">>
    ELSE <<"Topic", "Title">>

\* the text the final else branch gives its clause: s.to_owned(), s being
\* the whole search string, not the part of this iteration
PlainText(s, part) == s

\* parses the rest of the part whatever its first character is
StripAndParse_AnyPrefix(part, c) ==
    IF part # <<>> THEN parse_u64(Tail(part)) ELSE None

\* str::parse().ok() after strip_prefix, as in and_then(|s| s.parse().ok())
StripAndParse(part, c) ==
    LET rest == strip_prefix(part, c)
    IN  IF rest.some THEN parse_u64(rest.val) ELSE None

PushQuery(q, fields, text) ==
    [q EXCEPT !.queries = Append(@, Query(fields, text))]

\* one iteration of the loop over s.split_whitespace()
ParsePart(q, s, part, search_everywhere) ==
    IF strip_prefix(part, "!").some
    THEN PushQuery(q, <<"Channel">>, replace(strip_prefix(part, "!").val, ",", " "))
    ELSE IF strip_prefix(part, "#").some
    THEN PushQuery(q, <<"Topic">>, replace(strip_prefix(part, "#").val, ",", " "))
    ELSE IF strip_prefix(part, "+").some
    THEN PushQuery(q, <<"Title">>, replace(strip_prefix(part, "+").val, ",", " "))
    ELSE IF strip_prefix(part, "*").some
    THEN PushQuery(q, <<"Description">>, replace(strip_prefix(part, "*").val, ",", " "))
    ELSE IF StripAndParse(part, ">").some
    THEN [q EXCEPT !.duration_min = Some(StripAndParse(part, ">").val)]
    ELSE IF StripAndParse(part, "<").some
    THEN [q EXCEPT !.duration_max = Some(StripAndParse(part, "<").val)]
    ELSE PushQuery(q, PlainFields(search_everywhere), PlainText(s, part))

RECURSIVE ParseParts(_, _, _, _)
ParseParts(q, s, parts, search_everywhere) ==
    IF parts = <<>> THEN q
    ELSE ParseParts(ParsePart(q, s, Head(parts), search_everywhere),
                    s, Tail(parts), search_everywhere)

from_search_string(s, search_everywhere) ==
    ParseParts(DefaultQuery, s, split_whitespace(s), search_everywhere)

-----------------------------------------------------------------------------
(* JSON values: a record with its kind t and, by kind, its content *)

JNull == [t |-> "null"]
JBool(b) == [t |-> "bool", b |-> b]
\* an integer literal, of any size
JInt(n) == [t |-> "int", n |-> n]
\* a number with a fraction or an exponent
JFloat == [t |-> "float"]
JStr(str) == [t |-> "str", s |-> str]
JArr(seq) == [t |-> "arr", a |-> seq]
\* an object: a function from its keys to its members
JObj(members) == [t |-> "obj", o |-> members]

\* a body that is no JSON text
NotJson == [t |-> "invalid"]

\* the member of an object, None when the key is missing
Member(obj, k) == IF k \in DOMAIN obj.o THEN Some(obj.o[k]) ELSE None

\* serde_json reads an integer literal as u64 when it is in 0..u64::MAX
IsPosInt(json) == json.t = "int" /\ json.n >= 0 /\ json.n <= U64_MAX
\* and as i64 when it is negative and not below i64::MIN; any other number
\* (a fraction, an exponent, an integer outside both ranges) is read as f64
IsNegInt(json) == json.t = "int" /\ json.n < 0 /\ json.n >= I64_MIN

-----------------------------------------------------------------------------
(* models.rs: the decoders of the members of Item and QueryInfo.            *)
(* Each gives Ok(value) or Err(message).                                    *)

InvalidType == Err("invalid type")

\* String::deserialize
String_deserialize(json) ==
    IF json.t = "str" THEN Ok(json.s) ELSE InvalidType

\* an i64::deserialize that also takes a string spelling an integer
i64_deserialize_OrString(json) ==
    IF json.t = "str"
    THEN IF parse_i64(json.s).some THEN Ok(parse_i64(json.s).val) ELSE Err("invalid digit")
    ELSE IF IsNegInt(json) \/ (IsPosInt(json) /\ json.n <= I64_MAX) THEN Ok(json.n)
    ELSE InvalidType

\* i64::deserialize, of the field Item.timestamp
i64_deserialize(json) ==
    IF IsNegInt(json) THEN Ok(json.n)
    ELSE IF IsPosInt(json)
         THEN IF json.n <= I64_MAX THEN Ok(json.n) ELSE Err("invalid value")
         ELSE InvalidType

\* u64::deserialize and usize::deserialize
u64_deserialize(json) ==
    IF IsPosInt(json) THEN Ok(json.n)
    ELSE IF IsNegInt(json) THEN Err("invalid value") ELSE InvalidType

\* Option<usize>::deserialize: null is None
option_usize_deserialize(json) ==
    IF json.t = "null" THEN Ok(None)
    ELSE LET r == u64_deserialize(json)
         IN  IF r.ok THEN Ok(Some(r.val)) ELSE r

\* an empty_string_as_none that keeps the empty string
empty_string_as_some(json) ==
    LET s == String_deserialize(json)
    IN  IF ~s.ok THEN s ELSE Ok(Some(s.val))

\* models::empty_string_as_none
empty_string_as_none(json) ==
    LET s == String_deserialize(json)
    IN  IF ~s.ok THEN s
        ELSE IF s.val = <<>> THEN Ok(None) ELSE Ok(Some(s.val))

\* Duration::from_secs
from_secs(n) == Duration(n, 0)

\* OptionalDurationVisitor::visit_u64
OptionalDuration_visit_u64(n) == Ok(Some(from_secs(n)))

\* a visit_str that also takes the digits of a number
OptionalDuration_visit_str_Numeric(s) ==
    IF s = <<>> THEN Ok(None)
    ELSE IF parse_u64(s).some THEN Ok(Some(from_secs(parse_u64(s).val)))
    ELSE Err("string is not empty")

\* OptionalDurationVisitor::visit_str
OptionalDuration_visit_str(s) ==
    IF s = <<>> THEN Ok(None) ELSE Err("string is not empty")

\* optional_duration_secs::deserialize: deserialize_any hands an unsigned
\* integer to visit_u64 and a string to visit_str; the visitor has no method
\* for a negative integer, a float, a boolean, null (visit_unit), an array
\* or an object, and serde's defaults reject them
optional_duration_secs_deserialize(json) ==
    IF IsPosInt(json) THEN OptionalDuration_visit_u64(json.n)
    ELSE IF json.t = "str" THEN OptionalDuration_visit_str(json.s)
    ELSE InvalidType

\* TimestampVisitor::visit_i64
Timestamp_visit_i64(n) == Ok(n)

\* a visit_u64 that converts as `n as i64` does, wrapping
Timestamp_visit_u64_Wrapping(n) ==
    Ok(IF n > I64_MAX THEN n - 2 ^ ScaledBits ELSE n)

\* TimestampVisitor::visit_u64: n.try_into()
Timestamp_visit_u64(n) ==
    IF n <= I64_MAX THEN Ok(n) ELSE Err("out of range integral type conversion")

\* TimestampVisitor::visit_str: s.parse()
Timestamp_visit_str(s) ==
    IF parse_i64(s).some THEN Ok(parse_i64(s).val) ELSE Err("invalid digit")

\* timestamp::deserialize
timestamp_deserialize(json) ==
    IF IsPosInt(json) THEN Timestamp_visit_u64(json.n)
    ELSE IF IsNegInt(json) THEN Timestamp_visit_i64(json.n)
    ELSE IF json.t = "str" THEN Timestamp_visit_str(json.s)
    ELSE InvalidType

\* str::parse::<f32>() on the strings of the model: an optional sign, digits,
\* at most one point, at least one digit; the value is kept as its text
parse_f32(s) ==
    LET body == IF s # <<>> /\ Head(s) \in {"+", "-"} THEN Tail(s) ELSE s
        points == {i \in 1..Len(body) : body[i] = "."}
    IN  IF /\ \A i \in 1..Len(body) : body[i] \in Digits \cup {"."}
           /\ Cardinality(points) <= 1
           /\ \E i \in 1..Len(body) : body[i] \in Digits
        THEN Some(s)
        ELSE None

\* duration_millisecs::deserialize: a string, parsed as f32 seconds
duration_millisecs_deserialize(json) ==
    IF json.t # "str" THEN InvalidType
    ELSE IF parse_f32(json.s).some THEN Ok(parse_f32(json.s).val)
    ELSE Err("invalid float literal")

-----------------------------------------------------------------------------
(* models.rs: Item, QueryInfo, QueryResult and ApiResult (derive(Deserialize)) *)

\* the members of Item on the wire
ItemKeys ==
    {"channel", "topic", "title", "description", "timestamp", "duration", "size",
     "url_website", "url_subtitle", "url_video", "url_video_low", "url_video_hd",
     "filmlisteTimestamp", "id"}

\* the decoder of each member of Item, applied to the member's JSON value
ItemMemberDecode(k, json) ==
    CASE k \in {"channel", "topic", "title", "url_website", "url_video", "id"} ->
            String_deserialize(json)
      [] k \in {"description", "url_subtitle", "url_video_low", "url_video_hd"} ->
            empty_string_as_none(json)
      [] k = "timestamp" -> i64_deserialize(json)
      [] k = "duration" -> optional_duration_secs_deserialize(json)
      [] k = "size" -> option_usize_deserialize(json)
      [] k = "filmlisteTimestamp" -> timestamp_deserialize(json)

\* a member of a derived struct: a missing key is an error, except for a
\* plain Option member (Item.size), which is then None
ItemMember(obj, k) ==
    IF Member(obj, k).some THEN ItemMemberDecode(k, Member(obj, k).val)
    ELSE IF k = "size" THEN Ok(None)
    ELSE Err("missing field")

\* Item::deserialize of a JSON object: every member must decode
Item_deserialize(json) ==
    IF json.t # "obj" THEN InvalidType
    ELSE IF \E k \in ItemKeys : ~ItemMember(json, k).ok
         THEN Err("item")
         ELSE Ok([k \in ItemKeys |-> ItemMember(json, k).val])

QueryInfoKeys == {"filmlisteTimestamp", "resultCount", "searchEngineTime", "totalResults"}

QueryInfoMember(obj, k) ==
    IF ~Member(obj, k).some THEN Err("missing field")
    ELSE CASE k = "filmlisteTimestamp" -> timestamp_deserialize(Member(obj, k).val)
           [] k \in {"resultCount", "totalResults"} -> u64_deserialize(Member(obj, k).val)
           [] k = "searchEngineTime" -> duration_millisecs_deserialize(Member(obj, k).val)

\* QueryInfo::deserialize
QueryInfo_deserialize(json) ==
    IF json.t # "obj" THEN InvalidType
    ELSE IF \E k \in QueryInfoKeys : ~QueryInfoMember(json, k).ok
         THEN Err("query info")
         ELSE Ok([k \in QueryInfoKeys |-> QueryInfoMember(json, k).val])

\* Vec<Item>::deserialize: an array whose elements all decode
Items_deserialize(json) ==
    IF json.t # "arr" THEN InvalidType
    ELSE IF \E i \in 1..Len(json.a) : ~Item_deserialize(json.a[i]).ok
         THEN Err("item")
         ELSE Ok([i \in 1..Len(json.a) |-> Item_deserialize(json.a[i]).val])

\* QueryResult::deserialize
QueryResult_deserialize(json) ==
    IF json.t # "obj" THEN InvalidType
    ELSE IF ~Member(json, "queryInfo").some \/ ~Member(json, "results").some
         THEN Err("missing field")
    ELSE LET info == QueryInfo_deserialize(Member(json, "queryInfo").val)
             items == Items_deserialize(Member(json, "results").val)
         IN  IF ~info.ok THEN info
             ELSE IF ~items.ok THEN items
             ELSE Ok([query_info |-> info.val, results |-> items.val])

\* ApiError::deserialize: Box<[String]>, an array of strings
ApiError_deserialize(json) ==
    IF json.t # "arr" THEN InvalidType
    ELSE IF \E i \in 1..Len(json.a) : json.a[i].t # "str" THEN InvalidType
    ELSE Ok([i \in 1..Len(json.a) |-> json.a[i].s])

\* an Option<T> member of ApiResult: a missing key and null are None
OptionMember(obj, k, r) ==
    IF ~Member(obj, k).some \/ Member(obj, k).val.t = "null" THEN Ok(None)
    ELSE IF r.ok THEN Ok(Some(r.val)) ELSE r

\* ApiResult<QueryResult>::deserialize: the envelope {err, result}
ApiResult_deserialize(json) ==
    IF json.t # "obj" THEN InvalidType
    ELSE LET e == OptionMember(json, "err",
                     IF Member(json, "err").some
                     THEN ApiError_deserialize(Member(json, "err").val) ELSE InvalidType)
             r == OptionMember(json, "result",
                     IF Member(json, "result").some
                     THEN QueryResult_deserialize(Member(json, "result").val)
                     ELSE InvalidType)
         IN  IF ~e.ok THEN e
             ELSE IF ~r.ok THEN r
             ELSE Ok([err |-> e.val, result |-> r.val])

-----------------------------------------------------------------------------
(* error.rs: Error, and models.rs: the collapse of the envelope *)

\* Error::EmptyResponse
Error_EmptyResponse == [kind |-> "EmptyResponse"]
\* Error::Response(ApiError)
Error_Response(list) == [kind |-> "Response", list |-> list]

\* a conversion that reports a reqwest error as an empty response
Error_from_reqwest_AsEmpty(e) == [kind |-> "EmptyResponse"]

\* impl From<reqwest::Error> for Error: Error::Reqwest(e), e the reqwest
\* error with its own kind ("request", "status", "body" or "decode")
Error_from_reqwest(e) == [kind |-> "Reqwest", source |-> e]

\* a collapse that looks at result first
From_ApiResult_ResultFirst(r) ==
    IF r.result.some THEN Ok(r.result.val)
    ELSE IF r.err.some THEN Err(Error_Response(r.err.val))
    ELSE Err(Error_EmptyResponse)

\* impl From<ApiResult<T>> for crate::Result<T>
From_ApiResult(r) ==
    IF r.err.some THEN Err(Error_Response(r.err.val))
    ELSE IF r.result.some THEN Ok(r.result.val)
    ELSE Err(Error_EmptyResponse)

-----------------------------------------------------------------------------
(* lib.rs: the serialized form of MediathekQuery (derive(Serialize)) *)

\* serde(rename_all = "snake_case") of QueryField and SortField
snake_case(name) ==
    CASE name = "Topic" -> <<"t", "o", "p", "i", "c">>
      [] name = "Title" -> <<"t", "i", "t", "l", "e">>
      [] name = "Description" -> <<"d", "e", "s", "c", "r", "i", "p", "t", "i", "o", "n">>
      [] name = "Channel" -> <<"c", "h", "a", "n", "n", "e", "l">>
      [] name = "Timestamp" -> <<"t", "i", "m", "e", "s", "t", "a", "m", "p">>
      [] name = "Duration" -> <<"d", "u", "r", "a", "t", "i", "o", "n">>

\* serde(rename = "asc") / serde(rename = "desc") of SortOrder
SortOrderName(order) ==
    IF order = "Ascending" THEN <<"a", "s", "c">> ELSE <<"d", "e", "s", "c">>

\* models::Query, serialized
SerializeQuery(q) ==
    JObj([k \in {"fields", "query"} |->
            IF k = "fields"
            THEN JArr([i \in 1..Len(q.fields) |-> JStr(snake_case(q.fields[i]))])
            ELSE JStr(q.query)])

\* the optional members of MediathekQuery: wire key -> struct field
OptionalKeys == {"duration_min", "duration_max", "future", "sortBy", "sortOrder",
                 "size", "offset"}

FieldOfKey(k) ==
    CASE k = "sortBy" -> "sort_by" [] k = "sortOrder" -> "sort_order" [] OTHER -> k

\* a member that is written even when it is None
never_skip(opt) == FALSE

\* skip_serializing_if = "Option::is_none"
skip_serializing_if(opt) == ~opt.some

\* Option<T>::serialize: null for None, the value for Some
SerializeMember(k, opt) ==
    IF ~opt.some THEN JNull
    ELSE CASE k \in {"duration_min", "duration_max", "size", "offset"} -> JInt(opt.val)
           [] k = "future" -> JBool(opt.val)
           [] k = "sortBy" -> JStr(snake_case(opt.val))
           [] k = "sortOrder" -> JStr(SortOrderName(opt.val))

\* MediathekQuery, serialized by .json(&self.query)
Serialize(q) ==
    LET keys_out == {"queries"} \cup
                    {k \in OptionalKeys : ~skip_serializing_if(q[FieldOfKey(k)])}
    IN  JObj([k \in keys_out |->
                IF k = "queries"
                THEN JArr([i \in 1..Len(q.queries) |-> SerializeQuery(q.queries[i])])
                ELSE SerializeMember(k, q[FieldOfKey(k)])])

-----------------------------------------------------------------------------
(* lib.rs: Mediathek::query and the MediathekQueryBuilder setters *)

\* the arguments the callers of the model pass
ArgDurations == {Duration(0, 0), Duration(MaxArg, 500000000)}
ArgCounts == 0..MaxArg
\* fields is impl Into<Vec<QueryField>>: any list, the empty one included
ArgClauses ==
    {Query(<<"Topic">>, <<"a">>), Query(<<"Channel", "Title">>, <<>>),
     Query(<<>>, <<"a">>)}

\* no setter called yet
NoCalls ==
    [duration_min |-> None, duration_max |-> None, future |-> None,
     sort_by |-> None, sort_order |-> None, size |-> None, offset |-> None]

\* what every chain starts from
InitCommon ==
    /\ keys = 0
    /\ everywhere = FALSE
    /\ query = DefaultQuery
    /\ calls = NoCalls
    /\ payload = None
    /\ response = None
    /\ result = None
    /\ item = None

InitBuilder == pc = "client" /\ input = <<>> /\ wire = None /\ InitCommon

\* Mediathek::query: MediathekQueryBuilder::new(self).query(fields, query)
Mediathek_query ==
    /\ pc = "client"
    /\ \E c \in ArgClauses :
          query' = PushQuery(DefaultQuery, c.fields, c.query)
    /\ pc' = "building"
    /\ UNCHANGED <<input, keys, everywhere, calls, payload, response, result, wire, item>>

\* MediathekQueryBuilder::query
builder_query ==
    /\ pc = "building"
    /\ Len(query.queries) < MaxQueries
    /\ \E c \in ArgClauses : query' = PushQuery(query, c.fields, c.query)
    /\ UNCHANGED <<pc, input, keys, everywhere, calls, payload, response, result, wire, item>>

duration_min ==
    /\ pc = "building"
    /\ \E d \in ArgDurations :
          /\ query' = [query EXCEPT !.duration_min = Some(as_secs(d))]
          /\ calls' = [calls EXCEPT !.duration_min = Some(d)]
    /\ UNCHANGED <<pc, input, keys, everywhere, payload, response, result, wire, item>>

duration_max ==
    /\ pc = "building"
    /\ \E d \in ArgDurations :
          /\ query' = [query EXCEPT !.duration_max = Some(as_secs(d))]
          /\ calls' = [calls EXCEPT !.duration_max = Some(d)]
    /\ UNCHANGED <<pc, input, keys, everywhere, payload, response, result, wire, item>>

include_future ==
    /\ pc = "building"
    /\ \E b \in BOOLEAN :
          /\ query' = [query EXCEPT !.future = Some(b)]
          /\ calls' = [calls EXCEPT !.future = Some(b)]
    /\ UNCHANGED <<pc, input, keys, everywhere, payload, response, result, wire, item>>

sort_by ==
    /\ pc = "building"
    /\ \E f \in SortField :
          /\ query' = [query EXCEPT !.sort_by = Some(f)]
          /\ calls' = [calls EXCEPT !.sort_by = Some(f)]
    /\ UNCHANGED <<pc, input, keys, everywhere, payload, response, result, wire, item>>

sort_order ==
    /\ pc = "building"
    /\ \E o \in SortOrder :
          /\ query' = [query EXCEPT !.sort_order = Some(o)]
          /\ calls' = [calls EXCEPT !.sort_order = Some(o)]
    /\ UNCHANGED <<pc, input, keys, everywhere, payload, response, result, wire, item>>

size ==
    /\ pc = "building"
    /\ \E n \in ArgCounts :
          /\ query' = [query EXCEPT !.size = Some(n)]
          /\ calls' = [calls EXCEPT !.size = Some(n)]
    /\ UNCHANGED <<pc, input, keys, everywhere, payload, response, result, wire, item>>

offset ==
    /\ pc = "building"
    /\ \E n \in ArgCounts :
          /\ query' = [query EXCEPT !.offset = Some(n)]
          /\ calls' = [calls EXCEPT !.offset = Some(n)]
    /\ UNCHANGED <<pc, input, keys, everywhere, payload, response, result, wire, item>>

\* send(), up to its first await: the POST with .json(&self.query) as body
send_post ==
    /\ pc = "building"
    /\ payload' = Some(Serialize(query))
    /\ pc' = "sent"
    /\ UNCHANGED <<input, keys, everywhere, query, calls, response, result, wire, item>>

NextBuilder ==
    \/ Mediathek_query
    \/ builder_query
    \/ duration_min
    \/ duration_max
    \/ include_future
    \/ sort_by
    \/ sort_order
    \/ size
    \/ offset
    \/ send_post

SpecBuilder == InitBuilder /\ [][NextBuilder]_vars

-----------------------------------------------------------------------------
(* lib.rs: send(), after the POST: the response, its status, its body *)

\* the transport fails: no response
NoResponse == [kind |-> "error"]
HttpResponse(status, body) == [kind |-> "http", status |-> status, body |-> body]
\* the connection is lost while the body is read
BodyLost == [t |-> "lost"]

\* an item as the server usually writes it
BaseItem ==
    JObj([k \in ItemKeys |->
            CASE k \in {"timestamp", "duration", "size"} -> JInt(5)
              [] k = "filmlisteTimestamp" -> JStr(<<"5">>)
              [] OTHER -> JStr(<<"a">>)])

\* a result as the server usually writes it, with the given items
ResultWith(items) ==
    JObj([kk \in {"queryInfo", "results"} |->
        IF kk = "results" THEN JArr(items)
        ELSE JObj([q \in QueryInfoKeys |->
                CASE q = "filmlisteTimestamp" -> JStr(<<"5">>)
                  [] q = "searchEngineTime" -> JStr(<<"1", ".", "5">>)
                  [] OTHER -> JInt(1)])])

\* what the server may write as err and as result
ErrSamples ==
    {JNull, JArr(<<>>), JArr(<<JStr(<<"x">>)>>), JArr(<<JStr(<<"x">>), JStr(<<>>)>>),
     JStr(<<"x">>)}
ResultSamples ==
    {JNull, JInt(1), ResultWith(<<>>), ResultWith(<<BaseItem>>),
     ResultWith(<<BaseItem,
                  JObj([k \in ItemKeys |->
                          IF k = "duration" THEN JStr(<<"5">>) ELSE BaseItem.o[k]])>>)}

\* the envelopes: each of err and result written or left out
Envelopes ==
    {JObj([k \in ks |-> IF k = "err" THEN e ELSE r]) :
        ks \in SUBSET {"err", "result"}, e \in ErrSamples, r \in ResultSamples}

Bodies == {NotJson, BodyLost, JNull} \cup Envelopes
\* the statuses a response may carry: success, a 3xx the client does not
\* follow (300 Multiple Choices, which may carry a body), 4xx and 5xx
Statuses == {200, 300, 404, 500}
Responses == {NoResponse} \cup {HttpResponse(st, b) : st \in Statuses, b \in Bodies}

\* Response::error_for_status: an error for a 4xx or 5xx status
error_for_status(status) ==
    IF status >= 400 /\ status <= 599 THEN Err("status") ELSE Ok(status)

\* Response::json::<ApiResult<QueryResult>>(): read the body, then decode it
Response_json(body) ==
    IF body = BodyLost THEN Err("body")
    ELSE IF body = NotJson THEN Err("decode")
    ELSE IF ~ApiResult_deserialize(body).ok THEN Err("decode")
    ELSE ApiResult_deserialize(body)

\* send(): .send().await? completes, then .error_for_status()?
receive_response ==
    /\ pc = "sent"
    /\ \E r \in Responses :
          /\ response' = Some(r)
          /\ IF r.kind = "error"
             THEN /\ result' = Some(Err(Error_from_reqwest("request")))
                  /\ pc' = "done"
             ELSE IF ~error_for_status(r.status).ok
             THEN /\ result' = Some(Err(Error_from_reqwest(error_for_status(r.status).err)))
                  /\ pc' = "done"
             ELSE /\ result' = result
                  /\ pc' = "reading"
    /\ UNCHANGED <<input, keys, everywhere, query, calls, payload, wire, item>>

\* send(): .json::<ApiResult<QueryResult>>().await? completes, then .into()
read_json ==
    /\ pc = "reading"
    /\ LET r == Response_json(response.val.body)
       IN  result' = Some(IF r.ok THEN From_ApiResult(r.val)
                          ELSE Err(Error_from_reqwest(r.err)))
    /\ pc' = "done"
    /\ UNCHANGED <<input, keys, everywhere, query, calls, payload, response, wire, item>>

NextSend == Mediathek_query \/ send_post \/ receive_response \/ read_json

SpecSend == InitBuilder /\ [][NextSend]_vars

-----------------------------------------------------------------------------
(* The caller of Mediathek::query_string: types a search string, then parses *)

\* the characters a search string is typed from
Alphabet == {" ", "!", "#", "+", "*", ">", "<", ",", "a", "1", "2"}

\* what a search string starts from: nothing, or a pasted word and a space
Starts == {<<>>, <<">", "1", " ">>, <<"!", "a", ",", " ">>, <<"a", "\t">>}

InitParser == pc = "typing" /\ input \in Starts /\ wire = None /\ InitCommon

TypeChar ==
    /\ pc = "typing"
    /\ keys < MaxLen
    /\ \E c \in Alphabet : input' = Append(input, c)
    /\ keys' = keys + 1
    /\ UNCHANGED <<pc, everywhere, query, calls, payload, response, result, wire, item>>

\* Mediathek::query_string(query, search_everywhere)
query_string ==
    /\ pc = "typing"
    /\ \E se \in BOOLEAN :
          /\ everywhere' = se
          /\ query' = from_search_string(input, se)
    /\ pc' = "parsed"
    /\ UNCHANGED <<input, keys, calls, payload, response, result, wire, item>>

NextParser == TypeChar \/ query_string

SpecParser == InitParser /\ [][NextParser]_vars

-----------------------------------------------------------------------------
(* The server writes one item of a result; Item's decoder reads it *)

\* the JSON values a member may be written as
JsonSamples ==
    {JNull, JBool(TRUE), JFloat, JArr(<<>>), JObj(<<>>),
     JInt(0 - 1), JInt(0), JInt(5), JInt(I64_MAX + 1), JInt(U64_MAX + 1),
     JInt(I64_MIN - 1), JInt(I64_MAX), JInt(I64_MIN), JInt(U64_MAX),
     JStr(<<>>), JStr(<<"5">>), JStr(<<"-", "5">>), JStr(<<"+", "5">>),
     JStr(<<"a">>), JStr(<<"5", "a">>),
     JStr(to_string(I64_MAX)), JStr(to_string(I64_MAX + 1)),
     JStr(to_string(I64_MIN)), JStr(to_string(I64_MIN - 1))}

InitDecoder == pc = "wire" /\ input = <<>> /\ wire = Some(BaseItem) /\ InitCommon

\* the server writes member k as v
server_writes ==
    /\ pc = "wire"
    /\ keys < MaxEdits
    /\ \E k \in ItemKeys, v \in JsonSamples :
          wire' = Some(JObj([kk \in DOMAIN wire.val.o \cup {k} |->
                                IF kk = k THEN v ELSE wire.val.o[kk]]))
    /\ keys' = keys + 1
    /\ UNCHANGED <<pc, input, everywhere, query, calls, payload, response, result, item>>

\* the server leaves member k out
server_omits ==
    /\ pc = "wire"
    /\ keys < MaxEdits
    /\ \E k \in DOMAIN wire.val.o :
          wire' = Some(JObj([kk \in DOMAIN wire.val.o \ {k} |-> wire.val.o[kk]]))
    /\ keys' = keys + 1
    /\ UNCHANGED <<pc, input, everywhere, query, calls, payload, response, result, item>>

\* Item::deserialize, as serde_json runs it for each element of results
decode_item ==
    /\ pc = "wire"
    /\ item' = Some(Item_deserialize(wire.val))
    /\ pc' = "decoded"
    /\ UNCHANGED <<input, keys, everywhere, query, calls, payload, response, result, wire>>

NextDecoder == server_writes \/ server_omits \/ decode_item

SpecDecoder == InitDecoder /\ [][NextDecoder]_vars

-----------------------------------------------------------------------------
(* Vocabulary of the parser's claims: the tokens of the typed string *)

parsed == pc = "parsed"
Tokens == split_whitespace(input)

HasPrefix(tok, c) == tok # <<>> /\ tok[1] = c
IsPrefixed(tok) == \E c \in {"!", "#", "+", "*"} : HasPrefix(tok, c)
\* a valid >N (resp. <N): not prefixed by ! # + *, and N parses as u64
IsBound(tok, c) == ~IsPrefixed(tok) /\ HasPrefix(tok, c) /\ parse_u64(Tail(tok)).some
IsAnyBound(tok) == IsBound(tok, ">") \/ IsBound(tok, "<")
IsPlain(tok) == ~IsPrefixed(tok) /\ ~IsAnyBound(tok)
\* the tokens that are to give a clause, in input order
ClauseTokens == SelectSeq(Tokens, LAMBDA tok : ~IsAnyBound(tok))
BoundValues(c) ==
    LET toks == SelectSeq(Tokens, LAMBDA tok : IsBound(tok, c))
    IN  [i \in 1..Len(toks) |-> parse_u64(Tail(toks[i])).val]
FieldOfPrefix(c) ==
    CASE c = "!" -> "Channel" [] c = "#" -> "Topic"
      [] c = "+" -> "Title" [] c = "*" -> "Description"
CommaFree(tok, text) ==
    /\ Len(text) = Len(tok) - 1
    /\ \A k \in 1..Len(text) :
          text[k] = IF tok[k + 1] = "," THEN " " ELSE tok[k + 1]

\* C2: every plain-text token yields exactly one clause whose text is that
\* token itself, with fields [Topic, Title] or, when search_everywhere,
\* [Channel, Topic, Title, Description].
C2_PlainTokenIsItsOwnClause ==
    parsed =>
        /\ Len(query.queries) = Len(ClauseTokens)
        /\ \A j \in 1..Len(ClauseTokens) :
              IsPlain(ClauseTokens[j]) =>
                  /\ query.queries[j].query = ClauseTokens[j]
                  /\ query.queries[j].fields =
                        IF everywhere
                        THEN <<"Channel", "Topic", "Title", "Description">>
                        ELSE <<"Topic", "Title">>

\* C5: every token starting with ! # + * yields exactly one clause with the
\* single field Channel, Topic, Title, Description, whose text is the token
\* without its first character and with commas replaced by spaces; clauses
\* come in token order; such tokens never set a duration bound.
C5_PrefixedTokens ==
    parsed =>
        /\ Len(query.queries) = Len(ClauseTokens)
        /\ \A j \in 1..Len(ClauseTokens) :
              IsPrefixed(ClauseTokens[j]) =>
                  /\ query.queries[j].fields = <<FieldOfPrefix(ClauseTokens[j][1])>>
                  /\ CommaFree(ClauseTokens[j], query.queries[j].query)
        /\ (\A i \in 1..Len(Tokens) : IsPrefixed(Tokens[i])) =>
              (~query.duration_min.some /\ ~query.duration_max.some)

C5_Witness ==
    /\ parsed
    /\ Len(Tokens) >= 2
    /\ \A i \in 1..Len(Tokens) : IsPrefixed(Tokens[i])
    /\ \E i \in 1..Len(Tokens) : \E k \in 2..Len(Tokens[i]) : Tokens[i][k] = ","
    /\ query.queries[1].fields # query.queries[2].fields

LastOrNone(seq) == IF seq = <<>> THEN None ELSE Some(seq[Len(seq)])

\* C6: a valid >N (<N) sets duration_min (duration_max) and adds no clause,
\* the last such token wins; a token starting with > or < whose remainder is
\* no unsigned integer sets no bound and gives one clause with the
\* plain-text field list.
C6_DurationBounds ==
    parsed =>
        /\ query.duration_min = LastOrNone(BoundValues(">"))
        /\ query.duration_max = LastOrNone(BoundValues("<"))
        /\ Len(query.queries) = Len(ClauseTokens)
        /\ \A j \in 1..Len(ClauseTokens) :
              (HasPrefix(ClauseTokens[j], ">") \/ HasPrefix(ClauseTokens[j], "<")) =>
                  query.queries[j].fields =
                      IF everywhere
                      THEN <<"Channel", "Topic", "Title", "Description">>
                      ELSE <<"Topic", "Title">>

C6_Witness ==
    /\ parsed
    /\ Len(BoundValues(">")) = 2
    /\ BoundValues(">")[1] # BoundValues(">")[2]
    /\ query.duration_min = Some(BoundValues(">")[2])
    /\ query.queries = <<>>

\* C7: from_search_string(s, false) and from_search_string(s, true) have the
\* same clauses in the same order with the same texts and the same duration
\* bounds; only the field lists of plain-text clauses differ ([Topic, Title]
\* against [Channel, Topic, Title, Description]).
C7_SearchEverywhereOnlyChangesPlainFields ==
    parsed =>
        LET other == from_search_string(input, ~everywhere)
            qf == IF everywhere THEN other ELSE query
            qt == IF everywhere THEN query ELSE other
        IN  /\ Len(qf.queries) = Len(qt.queries)
            /\ Len(qf.queries) = Len(ClauseTokens)
            /\ qf.duration_min = qt.duration_min
            /\ qf.duration_max = qt.duration_max
            /\ \A j \in 1..Len(ClauseTokens) :
                  /\ qf.queries[j].query = qt.queries[j].query
                  /\ IF IsPrefixed(ClauseTokens[j])
                     THEN qf.queries[j] = qt.queries[j]
                     ELSE /\ qf.queries[j].fields = <<"Topic", "Title">>
                          /\ qt.queries[j].fields =
                                <<"Channel", "Topic", "Title", "Description">>

C7_Witness ==
    /\ parsed
    /\ everywhere
    /\ \E i, j \in 1..Len(ClauseTokens) :
          IsPrefixed(ClauseTokens[i]) /\ IsPlain(ClauseTokens[j])
    /\ query.duration_min.some

\* C10: each optional member of the serialized payload is present iff its
\* setter was called, carries the value of the most recent call of that
\* setter (the whole seconds, for the two durations), and is never null.
C10_OptionalMembers ==
    pc \in {"building", "sent"} =>
        LET body == IF pc = "sent" THEN payload.val ELSE Serialize(query)
        IN  /\ body.t = "obj"
            /\ \A k \in OptionalKeys :
                  LET call == calls[FieldOfKey(k)]
                  IN  /\ k \in DOMAIN body.o <=> call.some
                      /\ k \in DOMAIN body.o =>
                            /\ body.o[k].t # "null"
                            /\ body.o[k] =
                                  CASE k \in {"duration_min", "duration_max"} ->
                                          JInt(call.val.secs)
                                    [] k \in {"size", "offset"} -> JInt(call.val)
                                    [] k = "future" -> JBool(call.val)
                                    [] k = "sortBy" -> JStr(snake_case(call.val))
                                    [] k = "sortOrder" -> JStr(SortOrderName(call.val))

C10_Witness ==
    /\ pc = "sent"
    /\ calls.duration_max.some /\ calls.duration_max.val.nanos > 0
    /\ calls.sort_by.some /\ calls.size.some
    /\ ~calls.duration_min.some /\ ~calls.future.some /\ ~calls.offset.some
    /\ DOMAIN payload.val.o = {"queries", "duration_max", "sortBy", "size"}
    /\ Len(query.queries) = MaxQueries

\* the clauses of the serialized payload
PayloadClauses == payload.val.o["queries"].a

\* C11: in every builder state, and in every payload send() serializes,
\* every clause has a non-empty field list, whether it was added by
\* Mediathek::query, by MediathekQueryBuilder::query or by the parser.
C11_FieldsNeverEmpty ==
    /\ pc \in {"building", "parsed", "sent"} =>
          \A i \in 1..Len(query.queries) : query.queries[i].fields # <<>>
    /\ pc = "sent" =>
          \A i \in 1..Len(PayloadClauses) : PayloadClauses[i].o["fields"].a # <<>>

-----------------------------------------------------------------------------
(* Vocabulary of the decoder's claims *)

decoded == pc = "decoded"
\* the member k of the item on the wire
W(k) == Member(wire.val, k)
\* every member but k is one its decoder takes
OthersOk(k) == \A kk \in ItemKeys \ {k} : ItemMember(wire.val, kk).ok
InI64(n) == I64_MIN <= n /\ n <= I64_MAX

\* a response whose result holds an item as usually written, then this one
ResponseWith(json) ==
    JObj([k \in {"result"} |-> ResultWith(<<BaseItem, json>>)])

ResponseFails == ~ApiResult_deserialize(ResponseWith(wire.val)).ok

\* C3 as claimed: Item.timestamp is accepted as a JSON integer and as a
\* string of digits with an optional sign, both giving the same integer; a
\* string that is no integer fails the decoding of the response.
C3_TimestampNumberOrString ==
    (decoded /\ OthersOk("timestamp") /\ W("timestamp").some) =>
        LET j == W("timestamp").val
        IN  /\ (j.t = "int" /\ InI64(j.n)) =>
                  (item.val.ok /\ item.val.val["timestamp"] = j.n)
            /\ (j.t = "str" /\ parse_i64(j.s).some) =>
                  (item.val.ok /\ item.val.val["timestamp"] = parse_i64(j.s).val)
            /\ (j.t = "str" /\ ~parse_i64(j.s).some) =>
                  (~item.val.ok /\ ResponseFails)

\* C3, amended: Item.timestamp is accepted only as a JSON integer within the
\* signed 64-bit range, which decodes to itself; a string, whether or not it
\* spells an integer, fails the decoding of the response.
C3_TimestampIsNumberOnly ==
    (decoded /\ OthersOk("timestamp") /\ W("timestamp").some) =>
        LET j == W("timestamp").val
        IN  /\ (j.t = "int" /\ InI64(j.n)) =>
                  (item.val.ok /\ item.val.val["timestamp"] = j.n)
            /\ j.t = "str" => (~item.val.ok /\ ResponseFails)

C3_Witness ==
    /\ decoded
    /\ OthersOk("timestamp")
    /\ W("timestamp") = Some(JStr(<<"5">>))
    /\ W("filmlisteTimestamp") = Some(JStr(<<"5">>))
    /\ ~item.val.ok

EmptyAsNoneKeys == {"description", "url_subtitle", "url_video_low", "url_video_hd"}

\* C8: for description, url_subtitle, url_video_low and url_video_hd the
\* empty string decodes to absent and a non-empty string to present with
\* that string; a decoded Item never holds a present empty string there.
C8_EmptyStringIsAbsent ==
    decoded =>
        \A k \in EmptyAsNoneKeys :
            /\ item.val.ok =>
                  (item.val.val[k].some => item.val.val[k].val # <<>>)
            /\ (OthersOk(k) /\ W(k).some /\ W(k).val.t = "str") =>
                  /\ item.val.ok
                  /\ W(k).val.s = <<>> => ~item.val.val[k].some
                  /\ W(k).val.s # <<>> =>
                        (item.val.val[k].some /\ item.val.val[k].val = W(k).val.s)

C8_Witness ==
    /\ decoded
    /\ item.val.ok
    /\ W("url_video_hd") = Some(JStr(<<>>))
    /\ ~item.val.val["url_video_hd"].some
    /\ item.val.val["description"] = Some(<<"a">>)

\* C9: Item.duration is accepted as a bare unsigned integer n (present, n
\* seconds) and as the empty string (absent); every other encoding is a
\* decode error that fails the decoding of the whole response.
C9_DurationEncodings ==
    (decoded /\ OthersOk("duration")) =>
        LET j == W("duration")
            unsigned == j.some /\ j.val.t = "int" /\ 0 <= j.val.n /\ j.val.n <= U64_MAX
            empty == j.some /\ j.val.t = "str" /\ j.val.s = <<>>
        IN  /\ item.val.ok <=> (unsigned \/ empty)
            /\ unsigned =>
                  /\ item.val.val["duration"].some
                  /\ item.val.val["duration"].val.secs = j.val.n
                  /\ item.val.val["duration"].val.nanos = 0
            /\ empty => ~item.val.val["duration"].some
            /\ ~item.val.ok => ResponseFails

C9_Witness ==
    /\ decoded
    /\ OthersOk("duration")
    /\ W("duration") = Some(JStr(<<"5">>))
    /\ ~item.val.ok
    /\ ResponseFails

-----------------------------------------------------------------------------
(* Vocabulary of the claims on send() *)

done == pc = "done"
Failed == ~result.val.ok
Kind == result.val.err.kind
\* a response with a body that is an envelope the decoder takes
Decoded ==
    /\ response.val.kind = "http"
    /\ error_for_status(response.val.status).ok
    /\ response.val.body.t = "obj"
    /\ ApiResult_deserialize(response.val.body).ok
Present(k) ==
    /\ Member(response.val.body, k).some
    /\ Member(response.val.body, k).val.t # "null"
WireErr == Member(response.val.body, "err").val
WireResult == Member(response.val.body, "result").val

\* C1: the collapse of a decoded envelope is total, with error precedence:
\* err present gives the Response error with exactly that list, whether or
\* not result is present; err absent and result present gives that result;
\* both absent or null gives EmptyResponse.
C1_EnvelopeCollapse ==
    (done /\ Decoded) =>
        /\ Present("err") =>
              /\ Failed
              /\ Kind = "Response"
              /\ result.val.err.list = [i \in 1..Len(WireErr.a) |-> WireErr.a[i].s]
        /\ (~Present("err") /\ Present("result")) =>
              /\ result.val.ok
              /\ result.val.val = QueryResult_deserialize(WireResult).val
        /\ (~Present("err") /\ ~Present("result")) =>
              (Failed /\ Kind = "EmptyResponse")

C1_Witness ==
    /\ done
    /\ Decoded
    /\ Present("err") /\ Present("result")
    /\ Failed
    /\ Kind = "Response"
    /\ result.val.err.list = <<<<"x">>, <<>>>>

\* what made send() fail, read off the response
Cause ==
    IF response.val.kind = "error" THEN "transport"
    ELSE IF ~error_for_status(response.val.status).ok THEN "transport"
    ELSE IF response.val.body = BodyLost THEN "transport"
    ELSE IF response.val.body.t # "obj" \/ ~ApiResult_deserialize(response.val.body).ok
         THEN "decode"
    ELSE IF Present("err") THEN "response"
    ELSE IF ~Present("result") THEN "empty"
    ELSE "none"

\* the kind send() gives a failure of the transport
TransportKind == Error_from_reqwest("request").kind

\* C4 as claimed: a transport failure, a Response error, an Empty-response
\* error and a decode failure each have an error kind of their own; a decode
\* failure never has the kind of a transport failure.
C4_FailureKindsDistinct ==
    done =>
        /\ Cause = "decode" =>
              (Failed /\ Kind \notin {TransportKind, "Response", "EmptyResponse"})
        /\ Cause = "transport" =>
              (Failed /\ Kind \notin {"Response", "EmptyResponse"})
        /\ Cause = "response" => (Failed /\ Kind = "Response")
        /\ Cause = "empty" => (Failed /\ Kind = "EmptyResponse")

\* C4, amended: the error has three kinds.  A Response error and an
\* Empty-response error have a kind of their own; a transport failure (no
\* response, a 4xx or 5xx status, a lost body) and a decode failure both
\* have the kind Reqwest.
C4_ThreeErrorKinds ==
    done =>
        /\ Cause \in {"transport", "decode"} <=> (Failed /\ Kind = "Reqwest")
        /\ Cause = "response" <=> (Failed /\ Kind = "Response")
        /\ Cause = "empty" <=> (Failed /\ Kind = "EmptyResponse")
        /\ Cause = "none" <=> result.val.ok

C4_Witness ==
    /\ done
    /\ Cause = "decode"
    /\ response.val.status = 200
    /\ response.val.body.t = "obj"
    /\ Failed
    /\ Kind = TransportKind

\* StatusCode::is_success as the claims use it: a 2xx status
IsSuccess(status) == 200 <= status /\ status <= 299
\* the failure send() returns is a failure of the transport
TransportFailure == Failed /\ Kind = TransportKind

\* C12: send() issues one POST and runs transport, status check, body
\* decode and envelope collapse in this order, returning the failure of the
\* first stage that fails; a response with a non-success status always
\* yields a transport failure, never a Response error or a success,
\* whatever its body is.
C12_StagesInOrder ==
    done =>
        /\ payload.some
        /\ response.val.kind = "error" => TransportFailure
        /\ (response.val.kind = "http" /\ ~IsSuccess(response.val.status)) =>
              TransportFailure
        /\ (response.val.kind = "http" /\ IsSuccess(response.val.status)) =>
              LET r == Response_json(response.val.body)
              IN  IF r.ok THEN result.val = From_ApiResult(r.val)
                  ELSE Failed /\ result.val.err = Error_from_reqwest(r.err)

-----------------------------------------------------------------------------
(* Vocabulary of the claim on the film-list timestamp *)

\* the value of a string of digits, of any size
RECURSIVE DecimalValue(_)
DecimalValue(digs) ==
    IF digs = <<>> THEN 0
    ELSE 10 * DecimalValue(SubSeq(digs, 1, Len(digs) - 1)) + DigitVal(digs[Len(digs)])

Unsigned(s) == IF s # <<>> /\ s[1] \in {"+", "-"} THEN Tail(s) ELSE s
\* s spells an integer: an optional sign, then one digit or more
Spells(s) == Unsigned(s) # <<>> /\ \A i \in 1..Len(Unsigned(s)) : Unsigned(s)[i] \in Digits
SpelledValue(s) ==
    IF s[1] = "-" THEN 0 - DecimalValue(Unsigned(s)) ELSE DecimalValue(Unsigned(s))

\* a QueryInfo as the server usually writes it, with this filmlisteTimestamp
QueryInfoWith(json) ==
    JObj([q \in QueryInfoKeys |->
            CASE q = "filmlisteTimestamp" -> json
              [] q = "searchEngineTime" -> JStr(<<"1", ".", "5">>)
              [] OTHER -> JInt(1)])

\* both users of the decoder give the value n
BothGive(json, n) ==
    /\ item.val.ok
    /\ item.val.val["filmlisteTimestamp"] = n
    /\ QueryInfo_deserialize(QueryInfoWith(json)).ok
    /\ QueryInfo_deserialize(QueryInfoWith(json)).val["filmlisteTimestamp"] = n
\* both users of the decoder fail
BothFail(json) ==
    ~item.val.ok /\ ~QueryInfo_deserialize(QueryInfoWith(json)).ok

\* C13: filmlisteTimestamp of Item and of QueryInfo decodes without
\* wrapping: a JSON integer within the signed 64-bit range gives itself, a
\* string gives the signed integer it spells (the same as the number of
\* that value), and an unsigned integer above i64::MAX or a string that is
\* no signed 64-bit integer is a decode error; a decoded value is always
\* within the signed range.
C13_FilmlisteTimestamp ==
    (decoded /\ OthersOk("filmlisteTimestamp") /\ W("filmlisteTimestamp").some) =>
        LET j == W("filmlisteTimestamp").val
        IN  /\ (j.t = "int" /\ InI64(j.n)) => BothGive(j, j.n)
            /\ (j.t = "str" /\ Spells(j.s) /\ InI64(SpelledValue(j.s))) =>
                  /\ BothGive(j, SpelledValue(j.s))
                  /\ timestamp_deserialize(JInt(SpelledValue(j.s))) =
                        timestamp_deserialize(j)
            /\ (j.t = "int" /\ j.n > I64_MAX) => BothFail(j)
            /\ (j.t = "str" /\ ~(Spells(j.s) /\ InI64(SpelledValue(j.s)))) =>
                  BothFail(j)
            /\ item.val.ok => InI64(item.val.val["filmlisteTimestamp"])

C13_Witness ==
    /\ decoded
    /\ OthersOk("filmlisteTimestamp")
    /\ W("filmlisteTimestamp") = Some(JInt(I64_MAX + 1))
    /\ BothFail(JInt(I64_MAX + 1))

====
